---- MODULE Spec2Model ----
(***************************************************************************)
(* goresize (src/img.go): an image resizing proxy.  A request              *)
(* GET /resize/:encoded_url/:width/:height is validated by Image, then     *)
(* fetchResizedImage looks the resized variation up in the cache, consults *)
(* the negative cache (urlStatus), looks the original up in the cache,     *)
(* fetches it from the origin server, resizes it, and saves it in the      *)
(* cache from detached goroutines.                                         *)
(*                                                                         *)
(* Strings that the code slices, parses or concatenates are sequences of   *)
(* one-character strings; "+" is \o.  Messages that are only compared      *)
(* (error texts, the Cache-Control value) are TLA+ strings.                *)
(*                                                                         *)
(* Environment assumptions: the redis server answers every command; a      *)
(* cache file that exists can be read; SHA-1 has no collisions.            *)
(***************************************************************************)
EXTENDS Integers, Sequences, FiniteSets, TLC

VARIABLES now, redis, files, req, bg, call

vars == <<now, redis, files, req, bg, call>>

-----------------------------------------------------------------------------
(* Bounds of the model.                                                    *)

\* number of requests the model serves (each on its own goroutine)
NumReqs == 2

\* seconds of wall-clock time one Tick lets pass
TickStep == 300

\* number of Ticks the clock may make
MaxTicks == 2

\* largest width and height of the pictures and requests of SpecImage
MaxSide == 9

-----------------------------------------------------------------------------
(* Program constants.                                                      *)

\* const maxSize = 5 * (1 << 20)
maxSize == 5 * 1048576

\* a record that lives a tenth of the time
errTTL_short == 600 \div 10

\* connection.Expire("img/err/"+uri, 600)
errTTL == 600

\* var directory string (flag -d, default "cache")
directory == <<"c", "a", "c", "h", "e">>

\* headers.cacheControl = "public, max-age=600"
publicMaxAge == "public, max-age=600"

-----------------------------------------------------------------------------
(* Strings.                                                                *)

Lower ==
  << "a", "b", "c", "d", "e", "f", "g", "h", "i", "j", "k", "l", "m",
     "n", "o", "p", "q", "r", "s", "t", "u", "v", "w", "x", "y", "z" >>

Upper ==
  << "A", "B", "C", "D", "E", "F", "G", "H", "I", "J", "K", "L", "M",
     "N", "O", "P", "Q", "R", "S", "T", "U", "V", "W", "X", "Y", "Z" >>

\* ASCII 45..58: - . / 0 1 2 3 4 5 6 7 8 9 :
Punct ==
  << "-", ".", "/", "0", "1", "2", "3", "4", "5", "6", "7", "8", "9", ":" >>

\* string(chars): the character of a byte; a byte outside the letters, digits
\* and URL punctuation is written #<code>, one element per byte
Chr(b) ==
  IF b \in 97..122 THEN Lower[b - 96]
  ELSE IF b \in 65..90 THEN Upper[b - 64]
  ELSE IF b \in 45..58 THEN Punct[b - 44]
  ELSE "#" \o ToString(b)

DigitChars == <<"0", "1", "2", "3", "4", "5", "6", "7", "8", "9">>

\* value of a decimal digit character, -1 for any other character
DigitVal(c) ==
  IF \E i \in 1..10 : DigitChars[i] = c
  THEN (CHOOSE i \in 1..10 : DigitChars[i] = c) - 1
  ELSE -1

HexLower == <<"a", "b", "c", "d", "e", "f">>
HexUpper == <<"A", "B", "C", "D", "E", "F">>

\* encoding/hex fromHexChar: 0..15, or -1 for a character that is no hex digit
fromHexChar(c) ==
  IF DigitVal(c) >= 0 THEN DigitVal(c)
  ELSE IF \E i \in 1..6 : HexLower[i] = c
       THEN 9 + (CHOOSE i \in 1..6 : HexLower[i] = c)
  ELSE IF \E i \in 1..6 : HexUpper[i] = c
       THEN 9 + (CHOOSE i \in 1..6 : HexUpper[i] = c)
  ELSE -1

RECURSIVE DecodePairs(_)
DecodePairs(s) ==
  IF Len(s) < 2 THEN <<>>
  ELSE <<Chr(16 * fromHexChar(s[1]) + fromHexChar(s[2]))>>
         \o DecodePairs(SubSeq(s, 3, Len(s)))

\* hex.DecodeString(encoded_url): an odd length or a character that is no hex
\* digit is an error
DecodeString(s) ==
  IF Len(s) % 2 # 0 \/ \E i \in 1..Len(s) : fromHexChar(s[i]) < 0
  THEN [chars |-> <<>>, err |-> TRUE]
  ELSE [chars |-> DecodePairs(s), err |-> FALSE]

MaxInt32 == 2147483647

\* the digits of s read most significant first, or -1 as soon as the value
\* would pass 2^31 (the cutoff test of strconv, made before the multiplication)
RECURSIVE ParseDigits(_, _)
ParseDigits(s, acc) ==
  IF s = <<>> THEN acc
  ELSE IF DigitVal(s[1]) < 0 THEN -2
  ELSE IF acc > (MaxInt32 - DigitVal(s[1])) \div 10 THEN -1
  ELSE ParseDigits(Tail(s), 10 * acc + DigitVal(s[1]))

\* strconv.ParseInt(s, 10, 32): an optional sign, then at least one digit,
\* nothing else; a value outside the int32 range is an error too
ParseInt(s) ==
  LET neg == s # <<>> /\ s[1] = "-"
      digits == IF s # <<>> /\ s[1] \in {"+", "-"} THEN Tail(s) ELSE s
      n == ParseDigits(digits, 0)
  IN IF digits = <<>> \/ n < 0
     THEN [val |-> 0, err |-> TRUE]
     ELSE [val |-> IF neg THEN 0 - n ELSE n, err |-> FALSE]

RECURSIVE Digits(_)
Digits(n) ==
  IF n < 10 THEN <<DigitChars[n + 1]>>
  ELSE Digits(n \div 10) \o <<DigitChars[(n % 10) + 1]>>

\* the %d verb of fmt
Itoa(n) == IF n < 0 THEN <<"-">> \o Digits(0 - n) ELSE Digits(n)

\* fmt.Sprintf("resize/%d/%d", width, height)
resizeVariation(width, height) ==
  <<"r", "e", "s", "i", "z", "e", "/">> \o Itoa(width) \o <<"/">> \o Itoa(height)

orig == <<"o", "r", "i", "g">>

\* "img/err/" + uri
errKey(uri) == <<"i", "m", "g", "/", "e", "r", "r", "/">> \o uri

\* "img/" + variation + "/" + uri
metaKey(uri, variation) == <<"i", "m", "g", "/">> \o variation \o <<"/">> \o uri

\* time.Time.Format(time.RFC1123): one string per second of the clock
RFC1123(t) == <<"date", t>>

-----------------------------------------------------------------------------
(* Values.                                                                 *)

\* the zero value of type Headers
ZeroHeaders == [contentType |-> <<>>, lastModified |-> <<>>, cacheControl |-> ""]

\* a nil []byte
NilBody == [fmt |-> "nil", w |-> 0, h |-> 0, len |-> 0]

\* image bytes: the container format, the decoded bounds and the byte count
Pic(fmt, w, h, len) == [fmt |-> fmt, w |-> w, h |-> h, len |-> len]

imageJpeg == <<"i", "m", "a", "g", "e", "/", "j", "p", "e", "g">>
imagePng == <<"i", "m", "a", "g", "e", "/", "p", "n", "g">>
textHtml == <<"t", "e", "x", "t", "/", "h", "t", "m", "l">>

\* the formats registered with package image by the imports
DecodableFormats == {"png", "gif", "jpeg"}

-----------------------------------------------------------------------------
(* The redis database behind `connection`: key -> entry.  A string entry   *)
(* holds str, a hash entry holds its field "type".                         *)

NoKeys == [k \in {} |-> k]

Store(db, k, v) == [x \in DOMAIN db \cup {k} |-> IF x = k THEN v ELSE db[x]]

\* GET key, then Reply.Str(): ok iff the key holds a string
redisGet(db, k) ==
  IF k \in DOMAIN db /\ db[k].kind = "string"
  THEN [ok |-> TRUE, str |-> db[k].str]
  ELSE [ok |-> FALSE, str |-> ""]

\* HGET key type, then Reply.Str(): ok iff the key holds a hash
redisHget(db, k) ==
  IF k \in DOMAIN db /\ db[k].kind = "hash"
  THEN [ok |-> TRUE, type |-> db[k].type]
  ELSE [ok |-> FALSE, type |-> <<>>]

\* SET key value: replaces the entry and discards its time to live
redisSet(db, k, v) ==
  Store(db, k, [kind |-> "string", str |-> v, type |-> <<>>, ttl |-> FALSE, exp |-> 0])

\* EXPIRE key seconds at time t: no effect on a key that does not exist
redisExpire(db, k, seconds, t) ==
  IF k \in DOMAIN db
  THEN [db EXCEPT ![k] = [@ EXCEPT !.ttl = TRUE, !.exp = t + seconds]]
  ELSE db

\* HSET key type value: an error reply (dropped by the caller) on a string key
redisHset(db, k, v) ==
  IF k \in DOMAIN db /\ db[k].kind # "hash" THEN db
  ELSE Store(db, k, [kind |-> "hash", str |-> "", type |-> v, ttl |-> FALSE, exp |-> 0])

\* the keys redis still holds at time t
redisPurge(db, t) ==
  [k \in {x \in DOMAIN db : ~(db[x].ttl /\ db[x].exp <= t)} |-> db[k]]

-----------------------------------------------------------------------------
(* The functions of img.go.                                                *)

\* urlStatus: the recorded error text, "" for nil
urlStatus(db, uri) ==
  LET r == redisGet(db, errKey(uri))
  IN IF r.ok THEN r.str ELSE ""

\* SHA-1 without collisions: a digest stands for the string digested
sha1(s) == s

\* generateKeyForCache: directory/%x/%x/%x/%x of the digest of s
generateKeyForCache(s) == directory \o <<"/">> \o sha1(s)

\* fetchImageFromCache(uri, variation) against the database and the disk
fetchImageFromCache(db, disk, uri, variation) ==
  LET meta == redisHget(db, metaKey(uri, variation))
      filename == generateKeyForCache(uri)
  IN IF ~meta.ok
     THEN [ok |-> FALSE, headers |-> ZeroHeaders, body |-> NilBody]
     ELSE IF filename \notin DOMAIN disk
     THEN [ok |-> FALSE, headers |-> ZeroHeaders, body |-> NilBody]
     ELSE [ok |-> TRUE,
           headers |-> [contentType |-> meta.type,
                        lastModified |-> RFC1123(disk[filename].mtime),
                        cacheControl |-> ""],
           body |-> disk[filename].body]

\* the file saveImageInCache writes
saveFilename(uri, variation) == generateKeyForCache(variation \o <<":">> \o uri)

\* fetchImageFromServer(uri) on the response res of the server, at time t:
\* what it returns, whether it panics, and the goroutines it starts
serverResult(db, uri, res, t) ==
  LET none == [headers |-> ZeroHeaders, body |-> NilBody, err |-> "",
               panic |-> FALSE, saveErr |-> FALSE, saveOrig |-> FALSE]
  IN IF res.kind = "neterr"
     THEN [none EXCEPT !.err = "Get: transport error"]
     ELSE IF res.StatusCode # 200
     THEN [none EXCEPT !.err = "Unexpected status code", !.saveErr = TRUE]
     ELSE IF res.readErr
     THEN [none EXCEPT !.err = "unexpected EOF", !.body = res.body]
     ELSE IF res.ContentLength > maxSize
     THEN [none EXCEPT !.err = "Exceeded max size", !.body = res.body,
                       !.saveErr = TRUE]
     ELSE IF Len(res.contentType) < 5
     THEN [none EXCEPT !.panic = TRUE, !.body = res.body]
     ELSE IF SubSeq(res.contentType, 1, 5) # <<"i", "m", "a", "g", "e">>
     THEN [none EXCEPT !.err = "Invalid content-type", !.body = res.body,
                       !.saveErr = TRUE]
     ELSE [none EXCEPT !.headers = [contentType |-> res.contentType,
                                    lastModified |-> RFC1123(t),
                                    cacheControl |-> ""],
                       !.body = res.body,
                       !.saveOrig = (urlStatus(db, uri) = "")]

\* a failure of client.Get recorded like a failed validation
fetchImageFromServer_recordsTransport(db, uri, res, t) ==
  IF res.kind = "neterr"
  THEN [serverResult(db, uri, res, t) EXCEPT !.saveErr = TRUE]
  ELSE serverResult(db, uri, res, t)

fetchImageFromServer(db, uri, res, t) == serverResult(db, uri, res, t)

\* fetchImage without its line headers.cacheControl = ...
fetchImageHeaders_unset(headers) == headers

\* the end of fetchImage: headers.cacheControl = "public, max-age=600"
fetchImageHeaders(headers) == [headers EXCEPT !.cacheControl = publicMaxAge]

\* Resample(m, bounds, w, h): an image of w by h pixels
Resample(w, h) == [w |-> w, h |-> h]

\* png.Encode: an image without pixels is an error
pngEncode(m) ==
  IF m.w <= 0 \/ m.h <= 0
  THEN [err |-> "png: invalid format: invalid image size", body |-> NilBody]
  ELSE [err |-> "", body |-> Pic("png", m.w, m.h, m.w * m.h)]

Max2(a, b) == IF a >= b THEN a ELSE b
Min2(a, b) == IF a <= b THEN a ELSE b

\* the number of binary digits of n >= 0
RECURSIVE BitLen(_)
BitLen(n) == IF n = 0 THEN 0 ELSE 1 + BitLen(n \div 2)

\* x * 2^n <= y and x * 2^n < y, for an exponent n of either sign
Pow2Le(x, n, y) == IF n >= 0 THEN x * 2^n <= y ELSE x <= y * 2^(0 - n)
Pow2Lt(x, n, y) == IF n >= 0 THEN x * 2^n < y ELSE x < y * 2^(0 - n)

\* the binary exponent e of a / b for integers a, b > 0:
\* 2^e <= a / b < 2^(e + 1)
RECURSIVE Exponent(_, _)
Exponent(a, b) ==
  IF a >= 2 * b THEN 1 + Exponent(a, 2 * b)
  ELSE IF a < b THEN Exponent(2 * a, b) - 1
  ELSE 0

\* (r * 2^n) % b
RECURSIVE DoubleMod(_, _, _)
DoubleMod(r, n, b) ==
  IF n = 0 \/ r = 0 THEN r % b ELSE DoubleMod((2 * r) % b, n - 1, b)

\* float64(a) / float64(b) for integers a, b > 0.  A float64 has 53
\* significant bits and the division rounds to the nearest one, ties to the
\* even one: with e the exponent of a / b and s = 52 - e the quotient is
\* m / 2^s, m the integer nearest to a * 2^s / b.  Written as
\* (a * 2^s + d) / (b * 2^s), this is d: b - r0 when m is rounded up, -r0
\* when it is rounded down, r0 the remainder of a * 2^s by b.
roundingExcess(a, b) ==
  LET s == 52 - Exponent(a, b)
      r1 == DoubleMod(a % b, s - 1, b)
      r0 == (2 * r1) % b
      odd == (2 * r1) \div b = 1
  IN IF 2 * r0 > b \/ (2 * r0 = b /\ odd) THEN b - r0 ELSE 0 - r0

\* math.Floor(float64(o) / ratio) for ratio = float64(a) / float64(b) and
\* integers o, a, b > 0.  The exact quotient is E = o * b / a and the float64
\* quotient is within one part in 2^52 of it, so its floor is the floor of E
\* unless E is an integer.  Then a ratio rounded up (d > 0) gives the
\* quotient E - E * d / (a * 2^s + d); the division rounds it back to E when
\* it is within half a step of E (a step is 2^(k - 53) below E, k the binary
\* digits of E - 1), and to the float64 below E, whose floor is E - 1,
\* otherwise.
floorQuotient(o, a, b) ==
  LET E == (o * b) \div a
      d == roundingExcess(a, b)
      k == BitLen(E - 1)
  IN IF (o * b) % a # 0 \/ d <= 0 THEN E
     ELSE IF Pow2Le(E * d, Exponent(a, b) + 2 - k, a) THEN E
     ELSE E - 1

\* the same for math.Ceil: a ratio rounded down (d < 0) gives a quotient
\* above an integer E, rounded back to E when within half a step (2^(k - 53)
\* above E, k the binary digits of E)
ceilQuotient(o, a, b) ==
  LET E == (o * b) \div a
      d == roundingExcess(a, b)
      k == BitLen(E)
  IN IF (o * b) % a # 0 THEN E + 1
     ELSE IF d >= 0 THEN E
     ELSE IF Pow2Lt(E * (0 - d), Exponent(a, b) + 2 - k, a) THEN E
     ELSE E + 1

\* int(math.Floor(float64(o) / ratio)), ratio = float64(big) / float64(small):
\* a division by zero gives ratio = +Inf and o / +Inf = 0; a negative small
\* gives a negative ratio, and the floor of -x is minus the ceiling of x
scaled(o, big, small) ==
  IF small = 0 THEN 0
  ELSE IF small > 0 THEN floorQuotient(o, big, small)
  ELSE 0 - ceilQuotient(o, big, 0 - small)

\* newWidth and newHeight of resizeImage:
\* floor(orig / (max(origWidth, origHeight) / min(width, height)))
newSize(origWidth, origHeight, width, height) ==
  LET big == Max2(origWidth, origHeight)
      small == Min2(width, height)
  IN [w |-> scaled(origWidth, big, small), h |-> scaled(origHeight, big, small)]

\* no newWidth and newHeight: Resample was not called
NoSize == [w |-> 0, h |-> 0]

\* the test of resizeImage with > in place of >=
fits_strict(width, height, origWidth, origHeight) ==
  width > origWidth /\ height > origHeight

\* the test of resizeImage: the requested box holds the image
fits(width, height, origWidth, origHeight) ==
  width >= origWidth /\ height >= origHeight

\* resizeImage(uri, origBody, origHeaders, width, height): what it returns,
\* whether it called Resample and with what newWidth and newHeight
resizeImage(origBody, origHeaders, width, height) ==
  IF origBody.fmt \notin DecodableFormats
  THEN [headers |-> ZeroHeaders, body |-> NilBody,
        err |-> "image: unknown format", resampled |-> FALSE, size |-> NoSize]
  ELSE IF fits(width, height, origBody.w, origBody.h)
  THEN [headers |-> origHeaders, body |-> origBody, err |-> "",
        resampled |-> FALSE, size |-> NoSize]
  ELSE LET n == newSize(origBody.w, origBody.h, width, height)
           png == pngEncode(Resample(n.w, n.h))
       IN IF png.err # ""
          THEN [headers |-> ZeroHeaders, body |-> NilBody, err |-> png.err,
                resampled |-> TRUE, size |-> n]
          ELSE [headers |-> [origHeaders EXCEPT !.contentType = imagePng],
                body |-> png.body, err |-> "", resampled |-> TRUE, size |-> n]

\* Image without the test width * height > maxSize
ImageParams_noArea(in) ==
  LET width == ParseInt(in.strWidth)
      height == ParseInt(in.strHeight)
      chars == DecodeString(in.encoded_url)
      bad == [ok |-> FALSE, uri |-> <<>>, width |-> 0, height |-> 0]
  IN IF width.err THEN bad
     ELSE IF height.err THEN bad
     ELSE IF chars.err THEN bad
     ELSE [ok |-> TRUE, uri |-> chars.chars, width |-> width.val,
           height |-> height.val]

\* the parameter checks of Image: what the request asks for, or invalid
ImageParams(in) ==
  LET width == ParseInt(in.strWidth)
      height == ParseInt(in.strHeight)
      chars == DecodeString(in.encoded_url)
      bad == [ok |-> FALSE, uri |-> <<>>, width |-> 0, height |-> 0]
  IN IF width.err THEN bad
     ELSE IF height.err THEN bad
     ELSE IF width.val * height.val > maxSize THEN bad
     ELSE IF chars.err THEN bad
     ELSE [ok |-> TRUE, uri |-> chars.chars, width |-> width.val,
           height |-> height.val]

\* what the client receives
Response(status, headers, body) ==
  [status |-> status, headers |-> headers, body |-> body]

\* http.Error(w, ..., 400)
BadRequest == Response(400, ZeroHeaders, NilBody)

\* fn(): http.NotFound(w, r)
NotFound == Response(404, ZeroHeaders, NilBody)

\* a panic of the handler: net/http recovers it and closes the connection
\* without writing a response
Aborted == Response(0, ZeroHeaders, NilBody)

\* the end of Image without the comparison with If-Modified-Since
ImageRespond_unconditional(headers, body, ifModifiedSince) ==
  Response(200, headers, body)

\* the end of Image on a result of fetchResizedImage without error
ImageRespond(headers, body, ifModifiedSince) ==
  IF headers.lastModified = ifModifiedSince
  THEN Response(304, ZeroHeaders, NilBody)
  ELSE Response(200, headers, body)

-----------------------------------------------------------------------------
(* What the clients ask and what the origin server answers.                *)

Reqs == 1..NumReqs

\* hex of "http://a"
EncodedA ==
  <<"6", "8", "7", "4", "7", "4", "7", "0", "3", "a", "2", "f", "2", "f", "6", "1">>

Request(encoded_url, strWidth, strHeight) ==
  [encoded_url |-> encoded_url, strWidth |-> strWidth, strHeight |-> strHeight]

\* the requests of the model: two that pass the checks of Image (2x2 shrinks
\* the 4x2 pictures of the origin, 4000x2 does not), and one that fails each
\* check: width, height, width*height, encoded_url
Inputs ==
  {Request(EncodedA, <<"2">>, <<"2">>),
   Request(EncodedA, <<"4", "0", "0", "0">>, <<"2">>),
   Request(EncodedA, <<"x">>, <<"2">>),
   Request(EncodedA, <<"2">>, <<"1", ".", "5">>),
   Request(EncodedA, <<"4", "0", "0", "0">>, <<"4", "0", "0", "0">>),
   Request(<<"z", "z">>, <<"2">>, <<"2">>)}

NoInput == [encoded_url |-> <<>>, strWidth |-> <<>>, strHeight |-> <<>>]

\* the If-Modified-Since header of a request: absent, or the date of the
\* first second of the clock
IfModifiedSinceValues == {<<>>, RFC1123(0)}

NoRes ==
  [kind |-> "none", StatusCode |-> 0, ContentLength |-> 0, readErr |-> FALSE,
   body |-> NilBody, contentType |-> <<>>]

\* a server response with status 200 whose body is read to its end; its
\* length is declared in ContentLength, or not (-1, a chunked response)
Ok200(body, contentType, declared) ==
  [kind |-> "http", StatusCode |-> 200,
   ContentLength |-> IF declared THEN body.len ELSE -1,
   readErr |-> FALSE, body |-> body, contentType |-> contentType]

\* a picture of 4 by 2 pixels, and one of more than maxSize bytes
Picture == Pic("jpeg", 4, 2, 100)
HugePicture == Pic("jpeg", 4, 2, maxSize + 1)

\* client.Get(uri) fails, or the server answers: a status other than 200, a
\* body that cannot be read to its end, a picture, a page, a picture with a
\* Content-Type of three characters, bytes that are no picture sent as
\* image/png, a picture that is too large
Responses ==
  {[NoRes EXCEPT !.kind = "neterr"],
   [NoRes EXCEPT !.kind = "http", !.StatusCode = 404],
   [NoRes EXCEPT !.kind = "http", !.StatusCode = 200, !.readErr = TRUE,
                 !.contentType = imageJpeg],
   Ok200(Picture, imageJpeg, TRUE),
   Ok200(Picture, textHtml, TRUE),
   Ok200(Picture, <<"i", "m", "g">>, TRUE),
   Ok200(Pic("junk", 0, 0, 10), imagePng, TRUE),
   Ok200(HugePicture, imageJpeg, TRUE),
   Ok200(HugePicture, imageJpeg, FALSE)}

-----------------------------------------------------------------------------
(* State.                                                                  *)
(*   now    the clock, in seconds                                          *)
(*   redis  the database behind `connection`                               *)
(*   files  the files under `directory`: path -> body and modification time*)
(*   req    per request: where its goroutine stands (pc), its parameters,  *)
(*          the locals headers, body, err of fetchResizedImage, the        *)
(*          response, and a record of what it did                          *)
(*   bg     per request: the goroutines started by saveImageInCache for    *)
(*          "orig" and for the resized variation, and by saveErrorInCache  *)
(*   call   one call of Image taken alone (SpecImage): its request, what   *)
(*          the origin answers, and what each stage of the call returned   *)

NoSave ==
  [pc |-> "none", variation |-> <<>>, contentType |-> <<>>, body |-> NilBody]

\* the goroutine of saveErrorInCache: its text, and when the fetch failed and
\* when its EXPIRE ran
NoRecord == [pc |-> "none", msg |-> "", failedAt |-> 0, at |-> 0]

NoBg ==
  [orig |-> NoSave, resize |-> NoSave, rec |-> NoRecord]

\* what a request found when it called urlStatus: whether the SET of a
\* failure of its url had run and the seconds since the latest such failure;
\* whether every record started has set its expiry, and the seconds since
\* the last EXPIRE
NoCheck ==
  [done |-> FALSE, stored |-> FALSE, sinceFailure |-> 0,
   settled |-> FALSE, sinceExpire |-> 0]

NewReq ==
  [pc |-> "new", in |-> NoInput, uri |-> <<>>, width |-> 0, height |-> 0,
   headers |-> ZeroHeaders, body |-> NilBody, err |-> "", panicked |-> FALSE,
   res |-> NoRes, resp |-> Response(0, ZeroHeaders, NilBody),
   steps |-> {}, warm |-> FALSE, concurrent |-> FALSE, liveAtStart |-> "",
   chk |-> NoCheck]

\* resizeImage was not called
NoResize ==
  [headers |-> ZeroHeaders, body |-> NilBody, err |-> "", resampled |-> FALSE,
   size |-> NoSize]

NoCall ==
  [pc |-> "none", in |-> NoInput, ims |-> <<>>, res |-> NoRes,
   width |-> 0, height |-> 0, resized |-> FALSE, z |-> NoResize,
   resp |-> Response(0, ZeroHeaders, NilBody)]

Init ==
  /\ now = 0
  /\ redis = NoKeys
  /\ files = NoKeys
  /\ req = [r \in Reqs |-> NewReq]
  /\ bg = [r \in Reqs |-> NoBg]
  /\ call = NoCall

\* an earlier request for the same url and size was answered from a result
\* and both of its cache writes have completed
Warm(uri, width, height) ==
  \E q \in Reqs :
    /\ req[q].pc = "done" /\ req[q].resp.status \in {200, 304}
    /\ req[q].uri = uri /\ req[q].width = width /\ req[q].height = height
    /\ bg[q].orig.pc = "done" /\ bg[q].resize.pc = "done"

\* another request for the same url and size is between its first cache
\* lookup and its answer
Concurrent(uri, width, height) ==
  \E q \in Reqs :
    /\ req[q].pc \notin {"new", "done"}
    /\ req[q].uri = uri /\ req[q].width = width /\ req[q].height = height

-----------------------------------------------------------------------------
(* What a request finds in the history of the records of its url.          *)

\* the records of uri whose SET has run, and those whose EXPIRE has run too
Stored(uri) == {q \in Reqs : req[q].uri = uri /\ bg[q].rec.pc \in {"expire", "done"}}
Recorded(uri) == {q \in Reqs : req[q].uri = uri /\ bg[q].rec.pc = "done"}
InFlight(uri) == {q \in Reqs : req[q].uri = uri /\ bg[q].rec.pc \in {"set", "expire"}}

Latest(S) == CHOOSE t \in S : \A u \in S : u <= t

Check(uri) ==
  [done |-> TRUE,
   stored |-> Stored(uri) # {},
   sinceFailure |-> IF Stored(uri) = {} THEN 0
                    ELSE now - Latest({bg[q].rec.failedAt : q \in Stored(uri)}),
   settled |-> Recorded(uri) # {} /\ InFlight(uri) = {},
   sinceExpire |-> IF Recorded(uri) = {} THEN 0
                   ELSE now - Latest({bg[q].rec.at : q \in Recorded(uri)})]

-----------------------------------------------------------------------------
(* Image up to the first cache lookup of fetchResizedImage.                *)
ImgStart(r) ==
  /\ req[r].pc = "new"
  /\ \A q \in Reqs : q < r => req[q].pc # "new"
  /\ \E in \in Inputs, ims \in IfModifiedSinceValues :
       LET p == ImageParams(in)
           variation == resizeVariation(p.width, p.height)
           c == fetchImageFromCache(redis, files, p.uri, variation)
           asked == [req[r] EXCEPT !.in = in, !.uri = p.uri, !.width = p.width,
                                   !.height = p.height]
       IN req' = [req EXCEPT ![r] =
            IF ~p.ok
            THEN [req[r] EXCEPT !.in = in, !.pc = "done", !.resp = BadRequest]
            ELSE IF c.ok
            THEN [asked EXCEPT !.pc = "done", !.headers = c.headers,
                               !.body = c.body,
                               !.resp = ImageRespond(c.headers, c.body, ims),
                               !.steps = {"cacheResized"},
                               !.warm = Warm(p.uri, p.width, p.height),
                               !.concurrent = Concurrent(p.uri, p.width, p.height),
                               !.liveAtStart = urlStatus(redis, p.uri)]
            ELSE [asked EXCEPT !.pc = "status",
                               !.steps = {"cacheResized"},
                               !.warm = Warm(p.uri, p.width, p.height),
                               !.concurrent = Concurrent(p.uri, p.width, p.height),
                               !.liveAtStart = urlStatus(redis, p.uri)]]
  /\ UNCHANGED <<now, redis, files, bg, call>>

\* fetchImage: err = urlStatus(uri)
FetchImageStatus(r) ==
  /\ req[r].pc = "status"
  /\ LET e == urlStatus(redis, req[r].uri)
         chk == Check(req[r].uri)
     IN req' = [req EXCEPT ![r] =
          IF e # ""
          THEN [@ EXCEPT !.pc = "done", !.err = e, !.resp = NotFound,
                         !.steps = @ \cup {"urlStatus"}, !.chk = chk]
          ELSE [@ EXCEPT !.pc = "cache",
                         !.steps = @ \cup {"urlStatus"}, !.chk = chk]]
  /\ UNCHANGED <<now, redis, files, bg, call>>

\* fetchImage: fetchImageFromCache(uri, "orig")
FetchImageCache(r) ==
  /\ req[r].pc = "cache"
  /\ LET c == fetchImageFromCache(redis, files, req[r].uri, orig)
     IN req' = [req EXCEPT ![r] =
          IF c.ok
          THEN [@ EXCEPT !.pc = "resize", !.headers = fetchImageHeaders(c.headers),
                         !.body = c.body, !.steps = @ \cup {"cacheOrig"}]
          ELSE [@ EXCEPT !.pc = "server", !.steps = @ \cup {"cacheOrig"}]]
  /\ UNCHANGED <<now, redis, files, bg, call>>

\* fetchImage: fetchImageFromServer(uri), and what follows an error of it
FetchServerStep(r) ==
  /\ req[r].pc = "server"
  /\ \E res \in Responses :
       LET f == fetchImageFromServer(redis, req[r].uri, res, now)
           called == [req[r] EXCEPT !.res = res, !.steps = @ \cup {"origin"},
                                    !.body = f.body]
       IN /\ req' = [req EXCEPT ![r] =
               IF f.panic
               THEN [called EXCEPT !.pc = "done", !.panicked = TRUE,
                                   !.resp = Aborted]
               ELSE IF f.err # ""
               THEN [called EXCEPT !.pc = "done", !.err = f.err,
                                   !.headers = fetchImageHeaders(f.headers),
                                   !.resp = NotFound]
               ELSE [called EXCEPT !.pc = "resize",
                                   !.headers = fetchImageHeaders(f.headers)]]
          /\ bg' = [bg EXCEPT ![r] =
               IF f.saveErr
               THEN [@ EXCEPT !.rec = [pc |-> "set", msg |-> f.err, failedAt |-> now,
                                       at |-> 0]]
               ELSE IF f.saveOrig
               THEN [@ EXCEPT !.orig = [pc |-> "write", variation |-> orig,
                                        contentType |-> f.headers.contentType,
                                        body |-> f.body]]
               ELSE @]
  /\ UNCHANGED <<now, redis, files, call>>

\* the fetch made to wait while another request resizes the same url
FetchServer_locked(r) ==
  /\ \A q \in Reqs \ {r} : ~(req[q].uri = req[r].uri /\ req[q].pc = "resize")
  /\ FetchServerStep(r)

FetchServer(r) == FetchServerStep(r)

\* fetchResizedImage: resizeImage and saveImageInCache, then the end of Image
Resize(r) ==
  /\ req[r].pc = "resize"
  /\ \E ims \in IfModifiedSinceValues :
       LET z == resizeImage(req[r].body, req[r].headers, req[r].width, req[r].height)
           variation == resizeVariation(req[r].width, req[r].height)
           resized == [req[r] EXCEPT !.pc = "done", !.headers = z.headers,
                                     !.body = z.body, !.err = z.err,
                                     !.steps = @ \cup {"decode"}
                                       \cup (IF z.resampled THEN {"resample"} ELSE {})]
       IN /\ req' = [req EXCEPT ![r] =
               IF z.err # ""
               THEN [resized EXCEPT !.resp = NotFound]
               ELSE [resized EXCEPT !.resp = ImageRespond(z.headers, z.body, ims)]]
          /\ bg' = [bg EXCEPT ![r] =
               IF z.err # "" THEN @
               ELSE [@ EXCEPT !.resize = [pc |-> "write", variation |-> variation,
                                          contentType |-> z.headers.contentType,
                                          body |-> z.body]]]
  /\ UNCHANGED <<now, redis, files, call>>

-----------------------------------------------------------------------------
(* The goroutines of saveImageInCache and saveErrorInCache.                *)

Tiers == {"orig", "resize"}

\* os.MkdirAll and ioutil.WriteFile succeed
SaveWrite(r, k) ==
  /\ bg[r][k].pc = "write"
  /\ files' = Store(files, saveFilename(req[r].uri, bg[r][k].variation),
                    [body |-> bg[r][k].body, mtime |-> now])
  /\ bg' = [bg EXCEPT ![r][k].pc = "hset"]
  /\ UNCHANGED <<now, redis, req, call>>

\* a failed write that goes on to the Hset
SaveWriteFail_continues(r, k) ==
  /\ bg[r][k].pc = "write"
  /\ bg' = [bg EXCEPT ![r][k].pc = "hset"]
  /\ UNCHANGED <<now, redis, files, req, call>>

\* a failed write that fails the request that started it
SaveWriteFail_surfaces(r, k) ==
  /\ bg[r][k].pc = "write"
  /\ bg' = [bg EXCEPT ![r][k].pc = "failed"]
  /\ req' = [req EXCEPT ![r].err = "write failed", ![r].resp = NotFound]
  /\ UNCHANGED <<now, redis, files, call>>

\* os.MkdirAll or ioutil.WriteFile fails: the goroutine returns
SaveWriteFail(r, k) ==
  /\ bg[r][k].pc = "write"
  /\ bg' = [bg EXCEPT ![r][k].pc = "failed"]
  /\ UNCHANGED <<now, redis, files, req, call>>

\* connection.Hset("img/"+variation+"/"+uri, "type", headers.contentType)
SaveHset(r, k) ==
  /\ bg[r][k].pc = "hset"
  /\ redis' = redisHset(redis, metaKey(req[r].uri, bg[r][k].variation),
                        bg[r][k].contentType)
  /\ bg' = [bg EXCEPT ![r][k].pc = "done"]
  /\ UNCHANGED <<now, files, req, call>>

\* connection.Set("img/err/"+uri, err.Error())
ErrSet(r) ==
  /\ bg[r].rec.pc = "set"
  /\ redis' = redisSet(redis, errKey(req[r].uri), bg[r].rec.msg)
  /\ bg' = [bg EXCEPT ![r].rec.pc = "expire"]
  /\ UNCHANGED <<now, files, req, call>>

\* connection.Expire("img/err/"+uri, 600)
ErrExpire(r) ==
  /\ bg[r].rec.pc = "expire"
  /\ redis' = redisExpire(redis, errKey(req[r].uri), errTTL, now)
  /\ bg' = [bg EXCEPT ![r].rec.pc = "done", ![r].rec.at = now]
  /\ UNCHANGED <<now, files, req, call>>

\* time passes; redis drops the keys whose time to live has run out
Tick ==
  /\ now + TickStep <= MaxTicks * TickStep
  /\ now' = now + TickStep
  /\ redis' = redisPurge(redis, now + TickStep)
  /\ UNCHANGED <<files, req, bg, call>>

Next ==
  \/ \E r \in Reqs : ImgStart(r)
  \/ \E r \in Reqs : FetchImageStatus(r)
  \/ \E r \in Reqs : FetchImageCache(r)
  \/ \E r \in Reqs : FetchServer(r)
  \/ \E r \in Reqs : Resize(r)
  \/ \E r \in Reqs, k \in Tiers : SaveWrite(r, k)
  \/ \E r \in Reqs, k \in Tiers : SaveWriteFail(r, k)
  \/ \E r \in Reqs, k \in Tiers : SaveHset(r, k)
  \/ \E r \in Reqs : ErrSet(r)
  \/ \E r \in Reqs : ErrExpire(r)
  \/ Tick

Spec == Init /\ [][Next]_vars

-----------------------------------------------------------------------------
(* One call of Image taken alone, on the sizes of a range of pictures and  *)
(* requests: the cache holds nothing and the call runs to its end in one   *)
(* step.                                                                   *)

\* the pictures of the origin: every width and height up to MaxSide, and one
\* of 200 by 100
Sources ==
  {Pic("png", w, h, w * h) : w \in 1..MaxSide, h \in 1..MaxSide}
    \cup {Pic("jpeg", 200, 100, 20000)}

\* the :width and :height of the requests: -1, 0, every size up to MaxSide,
\* and 50
Sizes == {Itoa(n) : n \in -1..MaxSide} \cup {<<"5", "0">>}

InitImage ==
  /\ now \in {0, TickStep}
  /\ redis = NoKeys
  /\ files = NoKeys
  /\ req = [r \in Reqs |-> NewReq]
  /\ bg = [r \in Reqs |-> NoBg]
  /\ \E src \in Sources, w \in Sizes, h \in Sizes, ims \in IfModifiedSinceValues :
       call = [NoCall EXCEPT
                 !.pc = "new", !.in = Request(EncodedA, w, h), !.ims = ims,
                 !.res = Ok200(src, IF src.fmt = "png" THEN imagePng ELSE imageJpeg,
                               TRUE)]

\* Image from its first line to its last, every cache lookup a miss
ImageCall ==
  /\ call.pc = "new"
  /\ LET p == ImageParams(call.in)
         f == fetchImageFromServer(redis, p.uri, call.res, now)
         z == resizeImage(f.body, fetchImageHeaders(f.headers), p.width, p.height)
         asked == [call EXCEPT !.pc = "done", !.width = p.width,
                               !.height = p.height]
     IN call' =
          IF ~p.ok THEN [call EXCEPT !.pc = "done", !.resp = BadRequest]
          ELSE IF f.panic THEN [asked EXCEPT !.resp = Aborted]
          ELSE IF f.err # "" THEN [asked EXCEPT !.resp = NotFound]
          ELSE IF z.err # ""
          THEN [asked EXCEPT !.resized = TRUE, !.z = z, !.resp = NotFound]
          ELSE [asked EXCEPT !.resized = TRUE, !.z = z,
                             !.resp = ImageRespond(z.headers, z.body, call.ims)]
  /\ UNCHANGED <<now, redis, files, req, bg>>

NextImage == ImageCall

SpecImage == InitImage /\ [][NextImage]_vars

-----------------------------------------------------------------------------
(* Properties.                                                             *)

\* the request was answered from a result of fetchResizedImage
Served(r) == req[r].pc = "done" /\ req[r].resp.status \in {200, 304}

\* the server answered r with status 200 and its body was read to the end
Read200(r) ==
  /\ "origin" \in req[r].steps
  /\ req[r].res.kind = "http" /\ req[r].res.StatusCode = 200
  /\ ~req[r].res.readErr

BeginsWithImage(contentType) ==
  Len(contentType) >= 5 /\ SubSeq(contentType, 1, 5) = <<"i", "m", "a", "g", "e">>

ValidationMessages ==
  {"Unexpected status code", "Exceeded max size", "Invalid content-type"}

\* C1 (as claimed): a request that arrives after an identical request was
\* served and both cache writes of that request completed makes no origin
\* fetch and no resize.
C1_IdempotentCacheHit ==
  \A r \in Reqs :
    req[r].warm => req[r].steps \cap {"origin", "decode", "resample"} = {}

\* C2 (as claimed): once a put of (variation, url) has completed and no other
\* put of that pair was started, get(variation, url) is a hit that returns
\* the content type and the bytes of that put.
C2_StoreRoundTrip ==
  \A r \in Reqs, k \in Tiers :
    ( /\ bg[r][k].pc = "done"
      /\ \A q \in Reqs \ {r} :
           \/ bg[q][k].pc = "none"
           \/ metaKey(req[q].uri, bg[q][k].variation)
                # metaKey(req[r].uri, bg[r][k].variation) )
    => LET got == fetchImageFromCache(redis, files, req[r].uri, bg[r][k].variation)
       IN /\ got.ok
          /\ got.headers.contentType = bg[r][k].contentType
          /\ got.body = bg[r][k].body

\* the request was turned away by the negative cache, without an origin call
Rejected(r) ==
  /\ req[r].pc = "done" /\ req[r].resp.status = 404
  /\ req[r].err \in ValidationMessages
  /\ "origin" \notin req[r].steps

C4_NegativeCacheFirst ==
  \A r \in Reqs :
    (req[r].liveAtStart # "" /\ req[r].pc = "done")
    => /\ req[r].err = req[r].liveAtStart
       /\ req[r].body = NilBody
       /\ ~Served(r)

\* C5 (as claimed): no file of the "orig" variation holds more than maxSize
\* bytes, and a response whose body is larger than maxSize is not saved and
\* is recorded as a failure.
C5_SizeCeiling ==
  /\ \A r \in Reqs :
       saveFilename(req[r].uri, orig) \in DOMAIN files
       => files[saveFilename(req[r].uri, orig)].body.len <= maxSize
  /\ \A r \in Reqs :
       (Read200(r) /\ req[r].res.body.len > maxSize)
       => bg[r].orig.pc = "none" /\ bg[r].rec.pc # "none"

\* C6 (as claimed): a response with status 200, read to its end and within
\* the size limit, whose Content-Type does not begin with "image", makes
\* fetch fail with "Invalid content-type", save nothing as "orig" and record
\* the failure.
C6_ContentTypeValidation ==
  \A r \in Reqs :
    ( /\ Read200(r)
      /\ req[r].res.ContentLength <= maxSize
      /\ ~BeginsWithImage(req[r].res.contentType) )
    => /\ req[r].err = "Invalid content-type"
       /\ bg[r].orig.pc = "none"
       /\ bg[r].rec.pc # "none"

\* the response of the server fails one of the three validations
FailsValidation(res) ==
  /\ res.kind = "http"
  /\ \/ res.StatusCode # 200
     \/ ~res.readErr /\ res.ContentLength > maxSize
     \/ ~res.readErr /\ ~BeginsWithImage(res.contentType)

\* the request failed on client.Get, on reading the body, or on decoding
FailedOtherwise(r) ==
  /\ req[r].pc = "done"
  /\ \/ req[r].res.kind = "neterr"
     \/ req[r].res.kind = "http" /\ req[r].res.StatusCode = 200 /\ req[r].res.readErr
     \/ "decode" \in req[r].steps /\ req[r].err # ""

\* C7: a record is started only by a request whose server response failed
\* one of the three validations; a request that failed on the transport, on
\* reading the body or on decoding started none; every error key of the
\* database holds one of the three validation texts, and there is none
\* while no request has started a record.
C7_OnlyValidationFailuresCached ==
  /\ \A r \in Reqs :
       /\ bg[r].rec.pc # "none"
            => "origin" \in req[r].steps /\ FailsValidation(req[r].res)
       /\ FailedOtherwise(r) => bg[r].rec.pc = "none"
  /\ \A r \in Reqs :
       errKey(req[r].uri) \in DOMAIN redis
       => /\ redis[errKey(req[r].uri)].str \in ValidationMessages
          /\ \E q \in Reqs : bg[q].rec.pc # "none"

C7_Witness ==
  \E r, q \in Reqs :
    /\ req[r].pc = "done" /\ req[r].res.kind = "neterr"
    /\ req[q].pc = "done" /\ "decode" \in req[q].steps /\ req[q].err # ""
    /\ errKey(req[q].uri) \notin DOMAIN redis

\* the parameters of the request fail a check of the boundary
InvalidParameters(in) ==
  LET width == ParseInt(in.strWidth)
      height == ParseInt(in.strHeight)
  IN \/ width.err
     \/ height.err
     \/ ~width.err /\ ~height.err /\ width.val * height.val > 5 * 1048576
     \/ DecodeString(in.encoded_url).err

\* C8: a request with a width or height that is no integer, with
\* width*height above 5*2^20, or with malformed hex is answered 400 and runs
\* no step of the pipeline: no lookup, no origin fetch, no cache write.
C8_BoundaryValidation ==
  \A r \in Reqs :
    (req[r].pc # "new" /\ InvalidParameters(req[r].in))
    => /\ req[r].pc = "done" /\ req[r].resp = BadRequest
       /\ req[r].steps = {} /\ ~req[r].chk.done
       /\ bg[r] = NoBg

C8_Witness ==
  \E r \in Reqs :
    /\ req[r].pc = "done" /\ req[r].resp.status = 400
    /\ ~ParseInt(req[r].in.strWidth).err /\ ~ParseInt(req[r].in.strHeight).err
    /\ ~DecodeString(req[r].in.encoded_url).err
    /\ \E q \in Reqs : Served(q)

\* fetchResizedImage did not return a result
PipelineFailed(r) == req[r].pc = "done" /\ (req[r].err # "" \/ req[r].panicked)

\* C9 (as claimed): a request whose pipeline fails is answered 404 with no
\* image bytes and no image headers, and no resized entry is saved for it.
C9_PipelineFailures ==
  \A r \in Reqs :
    PipelineFailed(r)
    => /\ req[r].resp = NotFound
       /\ bg[r].resize.pc = "none"

-----------------------------------------------------------------------------
(* Properties of the cache writes.                                         *)

\* the calls of saveImageInCache made so far
Puts == {<<r, k>> \in Reqs \X Tiers : bg[r][k].pc # "none"}

\* two calls of saveImageInCache for the same url and variation
SameEntry(x, y) ==
  /\ req[x[1]].uri = req[y[1]].uri
  /\ bg[x[1]][x[2]].variation = bg[y[1]][y[2]].variation

PutFile(x) == saveFilename(req[x[1]].uri, bg[x[1]][x[2]].variation)
PutKey(x) == metaKey(req[x[1]].uri, bg[x[1]][x[2]].variation)

\* C11 (as claimed): whenever the file and the metadata of an entry both
\* exist, one call of saveImageInCache for that entry was given both the bytes
\* now in the file and the content type now in the metadata.
C11_BytesMatchContentType ==
  \A x \in Puts :
    (PutFile(x) \in DOMAIN files /\ PutKey(x) \in DOMAIN redis)
    => \E y \in Puts :
         /\ SameEntry(x, y)
         /\ bg[y[1]][y[2]].body = files[PutFile(x)].body
         /\ bg[y[1]][y[2]].contentType = redis[PutKey(x)].type

\* C15: the metadata of an entry exists only if its file exists and some
\* call of saveImageInCache for the entry has written the file and then the
\* metadata; a call whose write failed stays where it stopped.
C15_PutWriteOrdering ==
  /\ [](\A x \in Puts :
          PutKey(x) \in DOMAIN redis
          => /\ PutFile(x) \in DOMAIN files
             /\ \E y \in Puts : SameEntry(x, y) /\ bg[y[1]][y[2]].pc = "done")
  /\ [][\A x \in Puts :
          bg[x[1]][x[2]].pc = "failed" => bg'[x[1]][x[2]].pc = "failed"]_vars

\* an entry written by one call while the write of another call for the
\* same entry failed
C15_Witness ==
  \E x \in Puts, y \in Puts :
    /\ SameEntry(x, y)
    /\ bg[x[1]][x[2]].pc = "done" /\ bg[y[1]][y[2]].pc = "failed"
    /\ PutKey(x) \in DOMAIN redis /\ PutFile(x) \in DOMAIN files

\* C16 (as claimed): the goroutine of saveImageInCache(uri, "orig", ...)
\* writes its file and its metadata only while urlStatus(uri) is nil.
C16_NoOrigUnderErrorRecord ==
  [][\A r \in Reqs :
       (bg[r].orig.pc \in {"write", "hset"} /\ bg'[r].orig.pc \in {"hset", "done"}
        /\ bg'[r].orig.pc # bg[r].orig.pc)
       => urlStatus(redis, req[r].uri) = ""]_vars

\* C17 (as claimed): every key img/err/... of the database has a time to
\* live, of 600 seconds at most.
C17_RecordsExpire ==
  \A r \in Reqs :
    errKey(req[r].uri) \in DOMAIN redis
    => /\ redis[errKey(req[r].uri)].ttl
       /\ redis[errKey(req[r].uri)].exp - now <= 600

\* what fetchResizedImage returns for the parameters and the origin response
\* of request r when no goroutine of saveImageInCache or saveErrorInCache
\* ever runs (lastModified left aside)
Alone(r) ==
  LET f == fetchImageFromServer(NoKeys, req[r].uri, req[r].res, 0)
      z == resizeImage(f.body, f.headers, req[r].width, req[r].height)
  IN IF f.panic \/ f.err # ""
     THEN [panicked |-> f.panic, err |-> f.err, body |-> f.body,
           contentType |-> f.headers.contentType]
     ELSE [panicked |-> FALSE, err |-> z.err, body |-> z.body,
           contentType |-> z.headers.contentType]

\* C18: a request that called the origin ends with the error, the bytes and
\* the content type that fetchResizedImage returns when none of its
\* goroutines ever runs, whatever its goroutines and those of the other
\* requests have done; and no step of a goroutine changes a request.
C18_BackgroundWritesApart ==
  /\ [](\A r \in Reqs :
          (req[r].pc = "done" /\ "origin" \in req[r].steps)
          => /\ req[r].panicked = Alone(r).panicked
             /\ req[r].err = Alone(r).err
             /\ req[r].body = Alone(r).body
             /\ req[r].headers.contentType = Alone(r).contentType)
  /\ [][bg' # bg /\ (files' # files \/ redis' # redis
                     \/ \E x \in Puts : bg'[x[1]][x[2]].pc = "failed"
                                        /\ bg[x[1]][x[2]].pc = "write")
        => req' = req]_vars

\* a request answered from its result while the write of its original has
\* failed and the write of its resized image has not run
C18_Witness ==
  \E r \in Reqs :
    /\ Served(r)
    /\ bg[r].orig.pc = "failed"
    /\ bg[r].resize.pc = "write"

\* request r has started and has not been answered
Running(r) == req[r].pc \notin {"new", "done"}

\* C19: a request for the same url and size as another request that is
\* running can always take its next step, the fetch from the origin and the
\* resize included: nothing makes it wait for the other.
C19_NoCoalescing ==
  \A r \in Reqs :
    (Running(r) /\ \E q \in Reqs \ {r} :
                     /\ Running(q) /\ req[q].uri = req[r].uri
                     /\ req[q].width = req[r].width /\ req[q].height = req[r].height)
    => ENABLED (FetchImageStatus(r) \/ FetchImageCache(r) \/ FetchServer(r)
                  \/ Resize(r))

\* a stampede: two requests for the same url and size, one started while the
\* other was running, both answered 200 from their own fetch and their own
\* resize, and all four cache writes started
C19_Witness ==
  \E r \in Reqs, q \in Reqs :
    /\ r # q
    /\ req[r].in = req[q].in
    /\ req[r].concurrent
    /\ \A x \in {r, q} :
         /\ req[x].pc = "done" /\ req[x].resp.status = 200
         /\ {"origin", "decode", "resample"} \subseteq req[x].steps
         /\ ~req[x].warm
         /\ bg[x].orig.pc # "none" /\ bg[x].resize.pc # "none"

-----------------------------------------------------------------------------
(* Properties of one call of Image (SpecImage).                            *)

\* the call reached resizeImage with a picture that decodes
Decoded == call.pc = "done" /\ call.resized /\ call.res.body.fmt \in DecodableFormats

\* the call reached Resample
Downscaled == Decoded /\ call.z.resampled

\* C12: a picture that decodes and is no wider and no higher than the
\* requested box comes back from resizeImage with its own bytes and its own
\* content type, and Resample and png.Encode are not called.
C12_NoUpscale ==
  (Decoded /\ call.res.body.w <= call.width /\ call.res.body.h <= call.height)
  => /\ call.z.err = ""
     /\ ~call.z.resampled
     /\ call.z.body = call.res.body
     /\ call.z.headers.contentType = call.res.contentType

\* a picture requested at exactly its own size
C12_Witness ==
  /\ Decoded
  /\ call.res.body.w = call.width /\ call.res.body.h = call.height
  /\ call.z.body = call.res.body
  /\ call.resp.status = 200

\* C13: when Resample is called for a box whose smaller side is not zero,
\* the new width is floor(origW * min(w, h) / max(origW, origH)) and the new
\* height is floor(origH * min(w, h) / max(origW, origH)): each is at most
\* the exactly scaled side and less than one pixel below it.
C13_DownscaleDimensions ==
  LET big == Max2(call.res.body.w, call.res.body.h)
      small == Min2(call.width, call.height)
  IN (Downscaled /\ small # 0)
     => /\ call.z.size.w * big <= call.res.body.w * small
        /\ call.res.body.w * small < (call.z.size.w + 1) * big
        /\ call.z.size.h * big <= call.res.body.h * small
        /\ call.res.body.h * small < (call.z.size.h + 1) * big

\* C14: a result of the pipeline whose lastModified equals the
\* If-Modified-Since header of the request is answered 304 without headers
\* and without body; any other result is answered 200 with its headers and
\* its whole body.
C14_ConditionalResponse ==
  (call.pc = "done" /\ call.resized /\ call.z.err = "")
  => IF call.z.headers.lastModified = call.ims
     THEN call.resp = Response(304, ZeroHeaders, NilBody)
     ELSE call.resp = Response(200, call.z.headers, call.z.body)

\* a request whose If-Modified-Since is the date of the fetch
C14_Witness ==
  /\ call.pc = "done" /\ call.resized /\ call.z.err = ""
  /\ call.ims # <<>>
  /\ call.z.headers.lastModified = call.ims
  /\ call.resp.status = 304

\* C20: the width and height given to Resample are at least 1 and at most
\* the width and height of the request.
C20_WellFormedTargets ==
  Downscaled
  => /\ 1 <= call.z.size.w /\ call.z.size.w <= call.width
     /\ 1 <= call.z.size.h /\ call.z.size.h <= call.height

====
